---- MODULE Spec2Model ----
(***************************************************************************)
(* Model of ury-listd's listener (src/listener.go): the accept loop, one   *)
(* handleNewConnection goroutine per connection (running Client.Write),     *)
(* one Client.Read goroutine per connection, and the handleChannels         *)
(* dispatcher.  All channels are unbuffered, so a send and its receive are  *)
(* one rendezvous step.  A run-time panic in any goroutine ends the whole   *)
(* process.                                                                 *)
(***************************************************************************)
EXTENDS Integers, Sequences, FiniteSets, TLC

\* Bounds of the model.
MaxConns  == 2   \* connections accepted
MaxInputs == 4   \* events the environment produces: connections accepted,
                 \* failed Accepts, responses on cResCh, lines read, I/O
                 \* errors of the peers

Conns == 1..MaxConns

VARIABLES
  lpc,        \* runListener: "listen", "accept", "returned"
  accepted,   \* number of connections accepted so far (conn handles 1..accepted)
  acceptErrs, \* history: for each failed Accept, the connections accepted before it
  dpc,        \* handleChannels: "notstarted", "select", "fwd", "welcome",
              \*   "features", "bcast", "panic"
  clients,    \* handleChannels' clients map (its key set; value is the conn's resCh)
  dcur,       \* the client whose resCh the dispatcher is sending on (0: none)
  dtodo,      \* processResponse: map entries the range loop has not visited yet
  dmsg,       \* the message the dispatcher is holding
  hpc,        \* per conn, handleNewConnection / Client.Write:
              \*   "idle", "addCh", "spawn", "recv", "pack", "rmCh", "ret", "done"
  wmsg,       \* per conn, the message Client.Write received and has not packed yet
  rpc,        \* per conn, Client.Read: "none", "read", "reqCh", "rmCh", "done"
  rlines,     \* per conn, the lines Tokenise returned that the loop has not passed:
              \*   at "reqCh" its head is the line whose message is being sent
  nreads,     \* successful ReadBytes calls, over all connections
  nerrs,      \* socket errors caused by the peers, over all connections
  resCloses,  \* per conn, number of close(client.resCh) executed
  connCloses, \* per conn, number of conn.Close() executed
  sent,       \* per conn, history: messages received from resCh
  wire,       \* per conn, history: messages written to the socket
  put,        \* per conn, history: messages the read loop put on reqCh
  rd,         \* per conn, history: what the successful ReadBytes calls returned
  creq,       \* history: messages the connector received from cReqCh
  handled,    \* history: responses the dispatcher took from cResCh
  regAt,      \* per conn, Len(handled) when its add event was processed (-1: not yet)
  deregAt     \* per conn, Len(handled) when its remove event was processed (-1: not yet)

vars == <<lpc, accepted, acceptErrs, dpc, clients, dcur, dtodo, dmsg, hpc, wmsg, rpc,
          rlines, nreads, nerrs, resCloses, connCloses, sent, wire, put, rd, creq,
          handled, regAt, deregAt>>

lvars == <<lpc, accepted, acceptErrs>>
dvars == <<dpc, clients, dcur, dtodo, dmsg>>
rvars == <<rpc, rlines, nreads>>
cvars == <<resCloses, connCloses>>
hist  == <<sent, wire, put, rd, creq, handled, regAt, deregAt>>

----------------------------------------------------------------------------
\* baps3.Message values.  src/n tag a message with its origin (0: the server
\* or the connector, s: connection s) so that copies can be told apart;
\* packable is whether Pack succeeds on it.
Msg(word, args, src, n, packable) ==
  [word |-> word, args |-> args, src |-> src, n |-> n, packable |-> packable]

NoMsg == Msg("", <<>>, 0, 0, TRUE)

\* Mutant: the greeting is built as the features message.
makeWelcomeMsg_features == Msg("FEATURES", <<"lol">>, 0, 0, TRUE)

makeWelcomeMsg == Msg("OHAI", <<"listd", "0.0">>, 0, 0, TRUE)

makeFeaturesMsg == Msg("FEATURES", <<"lol">>, 0, 0, TRUE)

\* The n-th response of the connector.
Response(n, packable) == Msg("RES", <<>>, 0, n, packable)

\* The n-th request parsed on connection s.
Request(s, n) == Msg("REQ", <<>>, s, n, TRUE)

\* msg.Pack(): TRUE when it returns no error.
Pack(m) == m.packable

\* What one successful ReadBytes('\n') can return: bytes the tokeniser
\* rejects, an unfinished (quoted) line, a complete line that parses, a
\* complete line that LineToMessage rejects.
Chunks == {"garbage", "partial", "good", "badline"}

\* c.tok.Tokenise(line): the error flag and the completed lines.
TokeniseErr(chunk) == chunk = "garbage"

Tokenise(chunk) == IF chunk \in {"good", "badline"} THEN <<chunk>> ELSE <<>>

\* Mutant: every line is taken to parse.
LineToMessage_any(line) == TRUE

\* baps3.LineToMessage(line): TRUE when it returns no error.
LineToMessage(line) == line = "good"

\* Mutant: the add handler forgets to store the client.
TableInsert_forget(t, s) == t

\* clients[client.conn] = client.resCh
TableInsert(t, s) == t \cup {s}

\* Mutant: the remove handler closes the channel but keeps the entry.
TableDelete_keep(t, s) == t

\* delete(clients, client.conn)
TableDelete(t, s) == t \ {s}

\* Mutant: the range loop stops after its first entry.
RangeRest_stop(todo, s) == {}

\* The entries `range *clients` still has to visit after visiting s.
RangeRest(todo, s) == todo \ {s}

\* Mutant: a message overtakes those sent on resCh before it.
Received_front(q, m) == <<m>> \o q

\* msg, more := <-resCh, for the messages sent on resCh: Client.Write's
\* receipts in the order of the sends.
Received(q, m) == Append(q, m)

\* Mutant: the request is handed over in front of the earlier ones.
Forward_front(q, m) == <<m>> \o q

\* cReqCh <- req, seen from the connector's end: the connector's receipts
\* in order.
Forward(q, m) == Append(q, m)

\* Events of the environment so far.
Inputs == accepted + Len(acceptErrs) + Len(handled) + nreads + nerrs

\* A panic in a goroutine ends the process: nothing runs afterwards.
Alive == dpc # "panic"

----------------------------------------------------------------------------
Init ==
  /\ lpc = "listen"
  /\ accepted = 0
  /\ acceptErrs = <<>>
  /\ dpc = "notstarted"
  /\ clients = {}
  /\ dcur = 0
  /\ dtodo = {}
  /\ dmsg = NoMsg
  /\ hpc = [s \in Conns |-> "idle"]
  /\ wmsg = [s \in Conns |-> NoMsg]
  /\ rpc = [s \in Conns |-> "none"]
  /\ rlines = [s \in Conns |-> <<>>]
  /\ nreads = 0
  /\ nerrs = 0
  /\ resCloses = [s \in Conns |-> 0]
  /\ connCloses = [s \in Conns |-> 0]
  /\ sent = [s \in Conns |-> <<>>]
  /\ wire = [s \in Conns |-> <<>>]
  /\ put = [s \in Conns |-> <<>>]
  /\ rd = [s \in Conns |-> <<>>]
  /\ creq = <<>>
  /\ handled = <<>>
  /\ regAt = [s \in Conns |-> -1]
  /\ deregAt = [s \in Conns |-> -1]

----------------------------------------------------------------------------
\* runListener

\* net.Listen fails: runListener logs and returns.
ListenErr ==
  /\ lpc = "listen"
  /\ lpc' = "returned"
  /\ UNCHANGED <<accepted, acceptErrs, dvars, hpc, wmsg, rvars, nerrs, cvars,
                 hist>>

\* net.Listen succeeds: the channels are made and handleChannels is started.
ListenOk ==
  /\ lpc = "listen"
  /\ lpc' = "accept"
  /\ dpc' = "select"
  /\ UNCHANGED <<accepted, acceptErrs, clients, dcur, dtodo, dmsg, hpc, wmsg, rvars,
                 nerrs, cvars, hist>>

\* Mutant: handleNewConnection starts the read loop before it registers the
\* client.
Accept_readsFirst ==
  /\ lpc = "accept"
  /\ accepted < MaxConns
  /\ Inputs < MaxInputs
  /\ accepted' = accepted + 1
  /\ hpc' = [hpc EXCEPT ![accepted + 1] = "addCh"]
  /\ rpc' = [rpc EXCEPT ![accepted + 1] = "read"]
  /\ UNCHANGED <<lpc, acceptErrs, dvars, wmsg, rlines, nreads, nerrs, cvars,
                 hist>>

\* Accept returns a connection: go handleNewConnection, which makes the
\* Client and blocks on addCh <- client.
Accept ==
  /\ lpc = "accept"
  /\ accepted < MaxConns
  /\ Inputs < MaxInputs
  /\ accepted' = accepted + 1
  /\ hpc' = [hpc EXCEPT ![accepted + 1] = "addCh"]
  /\ UNCHANGED <<lpc, acceptErrs, dvars, wmsg, rvars, nerrs, cvars, hist>>

\* Mutant: a failed Accept ends runListener.
AcceptErr_returns ==
  /\ lpc = "accept"
  /\ Inputs < MaxInputs
  /\ acceptErrs' = Append(acceptErrs, accepted)
  /\ lpc' = "returned"
  /\ UNCHANGED <<accepted, dvars, hpc, wmsg, rvars, nerrs, cvars, hist>>

\* Accept returns an error: logged, and the loop calls Accept again.
AcceptErr ==
  /\ lpc = "accept"
  /\ Inputs < MaxInputs
  /\ acceptErrs' = Append(acceptErrs, accepted)
  /\ UNCHANGED <<lpc, accepted, dvars, hpc, wmsg, rvars, nerrs, cvars, hist>>

----------------------------------------------------------------------------
\* handleNewConnection / Client.Write

\* addCh <- client has completed: go client.Read, then client.Write.
StartLoops(s) ==
  /\ hpc[s] = "spawn"
  /\ hpc' = [hpc EXCEPT ![s] = "recv"]
  /\ rpc' = [rpc EXCEPT ![s] = "read"]
  /\ UNCHANGED <<lvars, dvars, wmsg, rlines, nreads, nerrs, cvars, hist>>

\* msg, more := <-resCh on a closed channel: Write returns.
WriteClosed(s) ==
  /\ hpc[s] = "recv"
  /\ resCloses[s] > 0
  /\ hpc' = [hpc EXCEPT ![s] = "ret"]
  /\ UNCHANGED <<lvars, dvars, wmsg, rvars, nerrs, cvars, hist>>

\* Mutant: a message that does not pack ends the write loop like a write
\* error does.
WritePackErr_quits(s) ==
  /\ hpc[s] = "pack"
  /\ ~Pack(wmsg[s])
  /\ hpc' = [hpc EXCEPT ![s] = "rmCh"]
  /\ wmsg' = [wmsg EXCEPT ![s] = NoMsg]
  /\ UNCHANGED <<lvars, dvars, rvars, nerrs, cvars, hist>>

\* msg.Pack() fails: logged, next message.
WritePackErr(s) ==
  /\ hpc[s] = "pack"
  /\ ~Pack(wmsg[s])
  /\ hpc' = [hpc EXCEPT ![s] = "recv"]
  /\ wmsg' = [wmsg EXCEPT ![s] = NoMsg]
  /\ UNCHANGED <<lvars, dvars, rvars, nerrs, cvars, hist>>

\* c.conn.Write(data) succeeds.
WriteOk(s) ==
  /\ hpc[s] = "pack"
  /\ Pack(wmsg[s])
  /\ wire' = [wire EXCEPT ![s] = Append(@, wmsg[s])]
  /\ hpc' = [hpc EXCEPT ![s] = "recv"]
  /\ wmsg' = [wmsg EXCEPT ![s] = NoMsg]
  /\ UNCHANGED <<lvars, dvars, rvars, nerrs, cvars, sent, put, rd, creq, handled,
                 regAt, deregAt>>

\* Mutant: the write loop takes its session out of the table itself.
WriteErr_unregisters(s) ==
  /\ hpc[s] = "pack"
  /\ Pack(wmsg[s])
  /\ Inputs < MaxInputs
  /\ nerrs' = nerrs + 1
  /\ hpc' = [hpc EXCEPT ![s] = "rmCh"]
  /\ wmsg' = [wmsg EXCEPT ![s] = NoMsg]
  /\ clients' = clients \ {s}
  /\ UNCHANGED <<lvars, dpc, dcur, dtodo, dmsg, rvars, cvars, hist>>

\* c.conn.Write(data) fails: Write goes on to rmCh <- c.
WriteErr(s) ==
  /\ hpc[s] = "pack"
  /\ Pack(wmsg[s])
  /\ Inputs < MaxInputs
  /\ nerrs' = nerrs + 1
  /\ hpc' = [hpc EXCEPT ![s] = "rmCh"]
  /\ wmsg' = [wmsg EXCEPT ![s] = NoMsg]
  /\ UNCHANGED <<lvars, dvars, rvars, cvars, hist>>

\* Write has returned: handleNewConnection's deferred conn.Close() runs.
ConnClose(s) ==
  /\ hpc[s] = "ret"
  /\ hpc' = [hpc EXCEPT ![s] = "done"]
  /\ connCloses' = [connCloses EXCEPT ![s] = @ + 1]
  /\ UNCHANGED <<lvars, dvars, wmsg, rvars, nerrs, resCloses, hist>>

----------------------------------------------------------------------------
\* Client.Read

\* Mutant: the read loop closes the socket itself when a read fails.
ReadErr_closes(s) ==
  /\ rpc[s] = "read"
  /\ IF connCloses[s] > 0
       THEN UNCHANGED nerrs
       ELSE Inputs < MaxInputs /\ nerrs' = nerrs + 1
  /\ rpc' = [rpc EXCEPT ![s] = "rmCh"]
  /\ connCloses' = [connCloses EXCEPT ![s] = @ + 1]
  /\ UNCHANGED <<lvars, dvars, hpc, wmsg, rlines, nreads, resCloses, hist>>

\* reader.ReadBytes('\n') returns an error: Read goes on to rmCh <- c.
ReadErr(s) ==
  /\ rpc[s] = "read"
  /\ IF connCloses[s] > 0
       THEN UNCHANGED nerrs
       ELSE Inputs < MaxInputs /\ nerrs' = nerrs + 1
  /\ rpc' = [rpc EXCEPT ![s] = "rmCh"]
  /\ UNCHANGED <<lvars, dvars, hpc, wmsg, rlines, nreads, cvars, hist>>

\* The rest of `for _, line := range lines` from its first line that parses:
\* lines LineToMessage rejects are logged and skipped.
RECURSIVE SkipBad(_)
SkipBad(lines) ==
  IF lines = <<>> \/ LineToMessage(Head(lines)) THEN lines ELSE SkipBad(Tail(lines))

\* Where Read blocks next, given the lines still to visit: on reqCh <- *msg
\* for the first line that parses, else in ReadBytes again.
ReadAt(lines) == IF SkipBad(lines) = <<>> THEN "read" ELSE "reqCh"

\* reader.ReadBytes('\n') returns a line, which is tokenised (an error is
\* logged and the loop continues) and whose lines are parsed up to the first
\* message to send.
ReadLine(s, chunk) ==
  /\ rpc[s] = "read"
  /\ Inputs < MaxInputs
  /\ nreads' = nreads + 1
  /\ rd' = [rd EXCEPT ![s] = Append(@, chunk)]
  /\ LET lines == IF TokeniseErr(chunk) THEN <<>> ELSE Tokenise(chunk) IN
       /\ rlines' = [rlines EXCEPT ![s] = SkipBad(lines)]
       /\ rpc' = [rpc EXCEPT ![s] = ReadAt(lines)]
  /\ UNCHANGED <<lvars, dvars, hpc, wmsg, nerrs, cvars, sent, wire, put, creq,
                 handled, regAt, deregAt>>

----------------------------------------------------------------------------
\* handleChannels

\* case client := <-addCh: the client is put in the table; the dispatcher
\* goes on to send the welcome message.
DAdd(s) ==
  /\ dpc = "select"
  /\ hpc[s] = "addCh"
  /\ hpc' = [hpc EXCEPT ![s] = "spawn"]
  /\ clients' = TableInsert(clients, s)
  /\ dcur' = s
  /\ dpc' = "welcome"
  /\ regAt' = [regAt EXCEPT ![s] = Len(handled)]
  /\ UNCHANGED <<lvars, dtodo, dmsg, wmsg, rvars, nerrs, cvars, sent, wire,
                 put, rd, creq, handled, deregAt>>

\* ch <- m where ch is connection s's resCh: a panic when ch is closed, else
\* a rendezvous with Client.Write's <-resCh.
CanSend(s) == resCloses[s] > 0 \/ hpc[s] = "recv"

SendRes(s, m, next) ==
  IF resCloses[s] > 0
    THEN /\ dpc' = "panic"
         /\ UNCHANGED <<hpc, wmsg, sent>>
    ELSE /\ dpc' = next
         /\ hpc' = [hpc EXCEPT ![s] = "pack"]
         /\ wmsg' = [wmsg EXCEPT ![s] = m]
         /\ sent' = [sent EXCEPT ![s] = Received(@, m)]

\* client.resCh <- *makeWelcomeMsg()
DSendWelcome ==
  /\ dpc = "welcome"
  /\ CanSend(dcur)
  /\ SendRes(dcur, makeWelcomeMsg, "features")
  /\ UNCHANGED <<lvars, clients, dcur, dtodo, dmsg, rvars, nerrs, cvars,
                 wire, put, rd, creq, handled, regAt, deregAt>>

\* client.resCh <- *makeFeaturesMsg(), then back to the select.
DSendFeatures ==
  /\ dpc = "features"
  /\ CanSend(dcur)
  /\ SendRes(dcur, makeFeaturesMsg, "select")
  /\ dcur' = IF dpc' = "select" THEN 0 ELSE dcur
  /\ UNCHANGED <<lvars, clients, dtodo, dmsg, rvars, nerrs, cvars, wire, put, rd,
                 creq, handled, regAt, deregAt>>

\* case msg := <-cResCh: processResponse starts ranging over the table; the
\* iteration order of a map is not fixed.
DResponse(packable) ==
  /\ dpc = "select"
  /\ Inputs < MaxInputs
  /\ LET m == Response(Len(handled) + 1, packable) IN
       /\ handled' = Append(handled, m)
       /\ IF clients = {}
            THEN UNCHANGED <<dpc, dcur, dtodo, dmsg>>
            ELSE /\ dpc' = "bcast"
                 /\ dmsg' = m
                 /\ \E s \in clients :
                      /\ dcur' = s
                      /\ dtodo' = RangeRest(clients, s)
  /\ UNCHANGED <<lvars, clients, hpc, wmsg, rvars, nerrs, cvars, sent, wire,
                 put, rd, creq, regAt, deregAt>>

\* ch <- res inside processResponse's loop, then the next entry or the end
\* of the loop.
DBcastSend ==
  /\ dpc = "bcast"
  /\ CanSend(dcur)
  /\ SendRes(dcur, dmsg, IF dtodo = {} THEN "select" ELSE "bcast")
  /\ IF dpc' = "panic"
       THEN UNCHANGED <<dcur, dtodo, dmsg>>
       ELSE IF dtodo = {}
         THEN /\ dcur' = 0
              /\ dmsg' = NoMsg
              /\ UNCHANGED dtodo
         ELSE /\ \E s \in dtodo :
                   /\ dcur' = s
                   /\ dtodo' = RangeRest(dtodo, s)
              /\ UNCHANGED dmsg
  /\ UNCHANGED <<lvars, clients, rvars, nerrs, cvars, wire, put, rd, creq,
                 handled, regAt, deregAt>>

\* case msg := <-reqCh: the rendezvous with connection s's reqCh <- *msg;
\* processRequest then blocks on cReqCh <- req.
DRequest(s) ==
  /\ dpc = "select"
  /\ rpc[s] = "reqCh"
  /\ LET m == Request(s, Len(put[s]) + 1) IN
       /\ dmsg' = m
       /\ put' = [put EXCEPT ![s] = Append(@, m)]
  /\ dpc' = "fwd"
  /\ rpc' = [rpc EXCEPT ![s] = ReadAt(Tail(rlines[s]))]
  /\ rlines' = [rlines EXCEPT ![s] = SkipBad(Tail(@))]
  /\ UNCHANGED <<lvars, clients, dcur, dtodo, hpc, wmsg, nreads, nerrs,
                 cvars, sent, wire, rd, creq, handled, regAt, deregAt>>

\* The connector receives from cReqCh: processRequest returns.
ConnectorRecv ==
  /\ dpc = "fwd"
  /\ creq' = Forward(creq, dmsg)
  /\ dmsg' = NoMsg
  /\ dpc' = "select"
  /\ UNCHANGED <<lvars, clients, dcur, dtodo, hpc, wmsg, rvars, nerrs, cvars,
                 sent, wire, put, rd, handled, regAt, deregAt>>

\* case client := <-rmCh: close(client.resCh), which panics on a channel
\* that is already closed, then delete(clients, client.conn).
Remove(s) ==
  /\ resCloses' = [resCloses EXCEPT ![s] = @ + 1]
  /\ IF resCloses[s] > 0
       THEN /\ dpc' = "panic"
            /\ UNCHANGED <<clients, deregAt>>
       ELSE /\ dpc' = "select"
            /\ clients' = TableDelete(clients, s)
            /\ deregAt' = [deregAt EXCEPT ![s] = Len(handled)]

\* The remove event comes from connection s's Client.Write.
DRemoveW(s) ==
  /\ dpc = "select"
  /\ hpc[s] = "rmCh"
  /\ hpc' = [hpc EXCEPT ![s] = "ret"]
  /\ Remove(s)
  /\ UNCHANGED <<lvars, dcur, dtodo, dmsg, wmsg, rvars, nerrs, connCloses,
                 sent, wire, put, rd, creq, handled, regAt>>

\* The remove event comes from connection s's Client.Read.
DRemoveR(s) ==
  /\ dpc = "select"
  /\ rpc[s] = "rmCh"
  /\ rpc' = [rpc EXCEPT ![s] = "done"]
  /\ Remove(s)
  /\ UNCHANGED <<lvars, dcur, dtodo, dmsg, hpc, wmsg, rlines, nreads, nerrs,
                 connCloses, sent, wire, put, rd, creq, handled, regAt>>

----------------------------------------------------------------------------
Listener == ListenErr \/ ListenOk \/ Accept \/ AcceptErr

Session(s) ==
  \/ StartLoops(s) \/ WriteClosed(s) \/ WritePackErr(s) \/ WriteOk(s)
  \/ WriteErr(s) \/ ConnClose(s)
  \/ ReadErr(s) \/ (\E chunk \in Chunks : ReadLine(s, chunk))

Dispatcher ==
  \/ (\E s \in Conns : DAdd(s))
  \/ DSendWelcome \/ DSendFeatures
  \/ (\E p \in BOOLEAN : DResponse(p))
  \/ DBcastSend
  \/ (\E s \in Conns : DRequest(s))
  \/ ConnectorRecv
  \/ (\E s \in Conns : DRemoveW(s))
  \/ (\E s \in Conns : DRemoveR(s))

Next ==
  /\ Alive
  /\ (Listener \/ (\E s \in Conns : Session(s)) \/ Dispatcher)

Spec == Init /\ [][Next]_vars

\* The scheduler runs every goroutine that can take a step, a pending socket
\* write returns, a read on a socket this side has closed returns an error,
\* and the connector drains cReqCh.
Fairness ==
  /\ WF_vars(Alive /\ Dispatcher)
  /\ \A s \in Conns :
       /\ WF_vars(Alive /\ (StartLoops(s) \/ WriteClosed(s) \/ WritePackErr(s)
                            \/ WriteOk(s) \/ WriteErr(s) \/ ConnClose(s)))
       /\ WF_vars(Alive /\ connCloses[s] > 0 /\ ReadErr(s))

FairSpec == Init /\ [][Next]_vars /\ Fairness

----------------------------------------------------------------------------
\* Properties

\* The dispatcher is inside a send on some client's resCh.
Sending == dpc \in {"welcome", "features", "bcast"}

\* The broadcast messages connection s received, in order.
IsRes(m) == m.word = "RES"
Res(s) == SelectSeq(sent[s], IsRes)

\* Number of copies of m connection s received.
Copies(s, m) == Cardinality({i \in DOMAIN sent[s] : sent[s][i] = m})

\* The requests of connection s among q, in order.
From(q, s) == SelectSeq(q, LAMBDA m : m.src = s)

\* C1: every session's outbound channel resCh is closed at most once, in
\* every interleaving of its read loop, its write loop and the dispatcher.
C1_ClosedAtMostOnce == \A s \in Conns : resCloses[s] <= 1

\* C2: once the dispatcher has processed a remove event for a session, it
\* never sends on that session's resCh again: the session is neither the
\* target of the send under way, nor still to be visited by the broadcast
\* under way, nor in the table.
C2_NoSendAfterRemove ==
  \A s \in Conns :
    resCloses[s] > 0 =>
      /\ ~(Sending /\ dcur = s)
      /\ ~(dpc = "bcast" /\ s \in dtodo)
      /\ s \notin clients

\* A broadcast is under way, to another session, that started after a
\* session was removed.
C2_Witness ==
  \E s \in Conns :
    /\ deregAt[s] >= 0
    /\ Len(handled) > deregAt[s]
    /\ dpc = "bcast"
    /\ dcur # s

\* C3: an I/O failure on session A does not stop delivery to the others: the
\* dispatcher is never blocked in a send on A's resCh while A's write loop
\* is blocked in its send on rmCh (neither can then ever proceed).
C3_NeverStuckOnFailed ==
  \A s \in Conns : ~(Sending /\ dcur = s /\ hpc[s] = "rmCh")

\* C4: handleChannels is running in every reachable state: it has not
\* panicked.
C4_DispatcherRunning == dpc # "panic"

\* C5: the first message put on a session's resCh is OHAI listd 0.0, the
\* second is FEATURES lol, and broadcast responses only come after them.
C5_WelcomeThenFeatures ==
  \A s \in Conns :
    /\ Len(sent[s]) >= 1 =>
         sent[s][1].word = "OHAI" /\ sent[s][1].args = <<"listd", "0.0">>
    /\ Len(sent[s]) >= 2 =>
         sent[s][2].word = "FEATURES" /\ sent[s][2].args = <<"lol">>
    /\ \A i \in DOMAIN sent[s] : i > 2 <=> IsRes(sent[s][i])

\* A session registered after a response had been broadcast has received
\* the welcome, the features and then a later response.
C5_Witness ==
  \E s \in Conns : regAt[s] >= 1 /\ Len(sent[s]) >= 3

\* The responses whose broadcast has ended.
Broadcast == IF dpc = "bcast" THEN Len(handled) - 1 ELSE Len(handled)

\* Connection s was in the table when response k was taken from cResCh.
InTableAt(s, k) ==
  /\ regAt[s] >= 0
  /\ regAt[s] < k
  /\ deregAt[s] = -1 \/ deregAt[s] >= k

\* C6: no session ever holds two copies of a response, and once the
\* broadcast of a response has ended every session that was registered when
\* it began holds exactly one copy.
C6_ExactlyOneCopy ==
  \A s \in Conns : \A k \in DOMAIN handled :
    /\ Copies(s, handled[k]) <= 1
    /\ (k <= Broadcast /\ InTableAt(s, k)) => Copies(s, handled[k]) = 1

\* A broadcast to MaxConns registered sessions has ended.
C6_Witness ==
  /\ dpc = "select"
  /\ Len(handled) >= 1
  /\ clients = Conns
  /\ \A s \in Conns : InTableAt(s, Len(handled))

\* C7: the responses a session receives are those the dispatcher took from
\* cResCh between the session's add event and its remove event, no others:
\* with the broadcasts ended, it holds all of them, in that order; during a
\* broadcast, also the current one if the loop has passed the session.
C7_SnapshotIsolation ==
  \A s \in Conns :
    IF regAt[s] < 0 THEN sent[s] = <<>>
    ELSE LET passed == dpc = "bcast" /\ s \in clients /\ s # dcur /\ s \notin dtodo
             hi == IF deregAt[s] >= 0 THEN deregAt[s]
                   ELSE IF passed THEN Len(handled) ELSE Broadcast
         IN  Res(s) = SubSeq(handled, regAt[s] + 1, hi)

\* Of two broadcasts, one session received both and a session registered
\* between them received the second only.
C7_Witness ==
  /\ dpc = "select"
  /\ Len(handled) = 2
  /\ \E s, t \in Conns :
       /\ regAt[s] = 0 /\ Res(s) = handled
       /\ regAt[t] = 1 /\ Res(t) = <<handled[2]>>

\* C8: per session, the messages sent on cReqCh (those the connector has
\* received, then the one processRequest is sending) are exactly the
\* messages the session put on reqCh, in the order it read them.
C8_FifoForwarding ==
  \A s \in Conns :
    From(IF dpc = "fwd" THEN Append(creq, dmsg) ELSE creq, s) = put[s]

\* Two requests of one session were forwarded while another session was
\* registered.
C8_Witness ==
  /\ dpc = "select"
  /\ \E s, t \in Conns :
       s # t /\ t \in clients /\ Len(put[s]) = 2 /\ creq = put[s]

\* C9: after Client.Read has observed a read error, the session is
\* eventually out of the table, with resCh closed, the write loop ended and
\* the socket closed.
C9_ReadFailureDisconnects ==
  \A s \in Conns :
    (rpc[s] = "rmCh") ~>
      (s \notin clients /\ resCloses[s] = 1 /\ hpc[s] = "done" /\ connCloses[s] = 1)

\* C10: after Client.Write has observed a socket write error, the write
\* loop ends, the session is eventually out of the table with resCh closed
\* and the socket closed, and the dispatcher is back at its select.
C10_WriteFailureDisconnects ==
  \A s \in Conns :
    (hpc[s] = "rmCh") ~>
      (s \notin clients /\ resCloses[s] >= 1 /\ connCloses[s] = 1 /\ dpc = "select")

\* The messages sent on cReqCh so far: those the connector received, then
\* the one processRequest is sending.
SentDown == IF dpc = "fwd" THEN Append(creq, dmsg) ELSE creq

\* The reads of connection s that returned a valid complete message.
IsGood(chunk) == chunk = "good"
GoodReads(s) == SelectSeq(rd[s], IsGood)

\* C11: malformed input is dropped and does not end the connection: the
\* messages of a session sent on cReqCh, with the one its read loop is
\* putting on reqCh, are one per valid line it read, and the step that reads
\* a line failing tokenising or parsing leaves the read loop in ReadBytes,
\* the table as it was and nothing new on reqCh.
C11_MalformedDropped ==
  /\ [](\A s \in Conns :
         /\ Len(From(SentDown, s)) + (IF rpc[s] = "reqCh" THEN 1 ELSE 0)
              = Len(GoodReads(s))
         /\ \A i \in DOMAIN put[s] : put[s][i] = Request(s, i))
  /\ [][\A s \in Conns :
          (rd'[s] # rd[s] /\ rd'[s][Len(rd'[s])] \in {"garbage", "badline"})
            => (rpc'[s] = "read" /\ clients' = clients /\ put' = put
                /\ resCloses' = resCloses)]_vars

\* A registered session read a malformed line and then a valid one; one
\* message went downstream and the read loop is in ReadBytes again.
C11_Witness ==
  \E s \in Conns : \E bad \in {"garbage", "badline"} :
    /\ rd[s] = <<bad, "good">>
    /\ creq = <<Request(s, 1)>>
    /\ dpc = "select"
    /\ rpc[s] = "read"
    /\ s \in clients

\* C12: a session's socket is closed at most once, and by nothing but the
\* deferred conn.Close() of handleNewConnection: it has been closed exactly
\* when handleNewConnection has ended, whatever the read loop and the
\* dispatcher have done.
C12_SocketClosedOnce ==
  \A s \in Conns : connCloses[s] = (IF hpc[s] = "done" THEN 1 ELSE 0)

\* The write loop failed, the session was removed and its socket closed,
\* and the read loop has observed a failure too.
C12_Witness ==
  \E s \in Conns : connCloses[s] = 1 /\ resCloses[s] = 1 /\ rpc[s] = "rmCh"

\* C13: for two responses the dispatcher took from cResCh one after the
\* other, every session that received both received them in that order.
C13_BroadcastOrder ==
  \A s \in Conns : \A a, b \in DOMAIN handled : \A i, j \in DOMAIN sent[s] :
    (a < b /\ sent[s][i] = handled[a] /\ sent[s][j] = handled[b]) => i < j

\* Two sessions have both received two responses.
C13_Witness ==
  /\ Len(handled) = 2
  /\ \A s \in {1, 2} : Res(s) = handled

\* C14: whenever the dispatcher waits at its select, the table holds exactly
\* the sessions whose add event has been processed and whose remove event
\* has not, and the resCh of every session in the table is open.
C14_TableAtSelect ==
  dpc = "select" =>
    \A s \in Conns :
      /\ s \in clients <=> (regAt[s] >= 0 /\ deregAt[s] < 0)
      /\ s \in clients => resCloses[s] = 0

\* At the select with one session registered and another one removed.
C14_Witness ==
  /\ dpc = "select"
  /\ \E s, t \in Conns : s \in clients /\ deregAt[t] >= 0 /\ resCloses[t] = 1

\* C15: the set of entries of the client table changes only in the
\* dispatcher's add handler, which adds the new client, and in its remove
\* handler, which deletes the removed one: every step of a read loop, a
\* write loop, the accept loop, processRequest and processResponse leaves
\* it as it was.
C15_TableOnlyAddRemove ==
  [][clients' # clients =>
       \E s \in Conns :
         \/ DAdd(s) /\ clients' = clients \cup {s}
         \/ (DRemoveW(s) \/ DRemoveR(s)) /\ clients' = clients \ {s}]_vars

\* A registered session has had a request forwarded and has received and
\* written a broadcast response.
C15_Witness ==
  \E s \in clients :
    /\ From(creq, s) # <<>>
    /\ Res(s) # <<>>
    /\ Len(wire[s]) >= 3

\* The messages of q that pack, in order.
Packables(q) == SelectSeq(q, Pack)

\* C16: a message that fails to pack is skipped and the write loop goes
\* on: what a session wrote to its socket is, in order, the packable
\* messages it received (all of them whenever the loop waits on resCh, a
\* prefix once a write has failed), and the step that finds a message
\* unpackable writes nothing, signals no removal and returns to the receive.
C16_PackFailureSkipped ==
  /\ [](\A s \in Conns :
         /\ Len(wire[s]) <= Len(Packables(sent[s]))
         /\ wire[s] = SubSeq(Packables(sent[s]), 1, Len(wire[s]))
         /\ hpc[s] = "recv" => wire[s] = Packables(sent[s]))
  /\ [][\A s \in Conns :
          (hpc[s] = "pack" /\ ~Pack(wmsg[s]) /\ hpc'[s] # hpc[s])
            => (hpc'[s] = "recv" /\ wire' = wire /\ dvars' = dvars
                /\ resCloses' = resCloses)]_vars

\* A session received a response that does not pack and then one that
\* does, and wrote the welcome, the features and the second response.
C16_Witness ==
  \E s \in Conns :
    /\ Len(sent[s]) = 4
    /\ ~Pack(sent[s][3])
    /\ wire[s] = <<sent[s][1], sent[s][2], sent[s][4]>>

\* C17: a failed Accept leaves runListener in its accept loop, where the
\* next connection can be accepted whatever the earlier sessions are doing,
\* while after a failed net.Listen runListener has returned with no
\* dispatcher and no session started.
C17_AcceptAndBindFailures ==
  /\ acceptErrs # <<>> => lpc = "accept"
  /\ (Alive /\ lpc = "accept" /\ accepted < MaxConns /\ Inputs < MaxInputs)
       => ENABLED Accept
  /\ lpc \in {"listen", "returned"} =>
       /\ dpc = "notstarted"
       /\ accepted = 0
       /\ \A s \in Conns : hpc[s] = "idle" /\ rpc[s] = "none"

\* A connection was accepted after an Accept had failed, while the session
\* accepted before the failure had not finished.
C17_Witness ==
  /\ acceptErrs = <<1>>
  /\ accepted = 2
  /\ hpc[1] \notin {"idle", "done"}
  /\ hpc[2] # "idle"

\* C18: once the dispatcher has taken a session's add event it gets back to
\* its select, having sent the welcome and the features message, even when
\* the session's socket write of the welcome message fails.
C18_RegistrationCompletes == (dpc = "welcome") ~> (dpc = "select")

\* C19: a session's loops start only after its send on addCh has completed:
\* as long as the dispatcher has not taken the add event, the read loop and
\* the write loop have not started, no remove event of the session has been
\* processed and none of its messages has reached reqCh.
C19_AddBeforeAnythingElse ==
  \A s \in Conns :
    regAt[s] < 0 =>
      /\ hpc[s] \in {"idle", "addCh"}
      /\ rpc[s] = "none"
      /\ deregAt[s] < 0 /\ resCloses[s] = 0
      /\ put[s] = <<>> /\ rd[s] = <<>>

\* A session was added, had a message taken from reqCh and was removed,
\* while another session is still waiting on addCh.
C19_Witness ==
  \E s, t \in Conns :
    /\ regAt[s] >= 0 /\ put[s] # <<>> /\ deregAt[s] >= 0
    /\ hpc[t] = "addCh"

\* C20: the dispatcher never takes from reqCh a message of a session whose
\* remove event it has already processed.
C20_NoRequestAfterRemove ==
  \A s \in Conns : ~(dpc = "fwd" /\ dmsg.src = s /\ resCloses[s] > 0)

====
